---------------------------- MODULE Spec2Model ----------------------------
(***************************************************************************)
(* A model of spot_driver_cpp's DefaultImageClient (the conversion of a    *)
(* batch of Spot SDK image responses into ROS image, camera-info and       *)
(* transform messages) and of KinematicService's service callback.         *)
(*                                                                         *)
(* C++ strings are TLA+ strings, operator+ is \o.  A tl::expected<T, E> is *)
(* a record [ok |-> TRUE, value |-> v] or [ok |-> FALSE, error |-> e].     *)
(***************************************************************************)
EXTENDS Integers, Sequences, FiniteSets, TLC

(* Bounds of the model. *)
MaxBatch == 2
MaxDim == 2
MaxEdges == 2
MaxInvocations == 2
MaxRequests == 3

VARIABLES
  pool,               \* which family of responses the robot answers with
  robot_name_,        \* DefaultImageClient::robot_name_
  pc,                 \* position inside DefaultImageClient::getImages
  get_image_result,   \* the value of get_image_result_future.get()
  clock_skew_result,  \* the value of time_sync_api_->getClockSkew()
  skewCalls,          \* number of getClockSkew() calls of this invocation
  idx,                \* number of loop iterations started
  image_msg,          \* the toImageMsg result of the last iteration
  out,                \* GetImagesResult out: images_ and transforms_
  result,             \* what getImages returned
  invocations,        \* number of getImages invocations started
  prev,               \* the previous invocation: its skew and its result
  kin_pc,             \* KinematicService: "spinning" or "terminated"
  kin_history         \* one record per service_callback_ run

imgVars == <<pool, robot_name_, pc, get_image_result, clock_skew_result,
             skewCalls, idx, image_msg, out, result, invocations, prev>>
kinVars == <<kin_pc, kin_history>>
vars == <<imgVars, kinVars>>

Ok(v) == [ok |-> TRUE, value |-> v]
Unexpected(e) == [ok |-> FALSE, error |-> e]
None == [none |-> TRUE]
IsNone(x) == "none" \in DOMAIN x
\* The process was ended in the middle of a call (a fault on an out-of-bounds
\* read, a library assertion, an exception that nothing catches).
Aborted == [aborted |-> TRUE]
IsAborted(x) == "aborted" \in DOMAIN x

(***************************************************************************)
(* kExcludedStaticTfFrames                                                 *)
(***************************************************************************)
kExcludedStaticTfFrames == {"body", "odom", "vision", "arm0.link_wr1"}

(***************************************************************************)
(* getCvPixelFormat                                                        *)
(***************************************************************************)
PixelFormats == {"PIXEL_FORMAT_UNKNOWN", "PIXEL_FORMAT_GREYSCALE_U8",
                 "PIXEL_FORMAT_RGB_U8", "PIXEL_FORMAT_RGBA_U8",
                 "PIXEL_FORMAT_DEPTH_U16", "PIXEL_FORMAT_GREYSCALE_U16"}
ImageFormats == {"FORMAT_UNKNOWN", "FORMAT_JPEG", "FORMAT_RAW", "FORMAT_RLE"}

getCvPixelFormat(format) ==
  CASE format = "PIXEL_FORMAT_RGB_U8" -> Ok("CV_8UC3")
    [] format = "PIXEL_FORMAT_RGBA_U8" -> Ok("CV_8UC4")
    [] format = "PIXEL_FORMAT_GREYSCALE_U8" -> Ok("CV_8UC1")
    [] format = "PIXEL_FORMAT_GREYSCALE_U16" -> Ok("CV_16UC1")
    [] format = "PIXEL_FORMAT_DEPTH_U16" -> Ok("CV_16UC1")
    [] OTHER -> Unexpected("Unknown pixel format.")

\* cv::Mat::elemSize() of an OpenCV type: bytes per pixel.
ElemSize(cvType) ==
  CASE cvType = "CV_8UC1" -> 1
    [] cvType = "CV_8UC3" -> 3
    [] cvType = "CV_8UC4" -> 4
    [] cvType = "CV_16UC1" -> 2

(***************************************************************************)
(* spot_ros2::applyClockSkew: robot time to local time.                    *)
(***************************************************************************)
applyClockSkew(timestamp, clock_skew) == timestamp - clock_skew

\* "Omit leading `/` from frame ID if robot_name is empty"
FramePrefix(robot_name) == IF robot_name = "" THEN "" ELSE robot_name \o "/"

(***************************************************************************)
(* toCameraInfoMsg                                                         *)
(***************************************************************************)
toCameraInfoMsg(image_response, robot_name, clock_skew) ==
  Ok([distortion_model |-> "plumb_bob",
      height |-> image_response.rows,
      width |-> image_response.cols,
      frame_id |-> FramePrefix(robot_name) \o image_response.frame_name_image_sensor,
      stamp |-> applyClockSkew(image_response.acquisition_time, clock_skew),
      d |-> <<0, 0, 0, 0, 0>>,
      r |-> <<1, 0, 0, 0, 1, 0, 0, 0, 1>>])

(***************************************************************************)
(* toImageMsg.  The set of outcomes of one call: one element where the     *)
(* behaviour is defined, several where the call reads past the payload.    *)
(***************************************************************************)
\* cv::Mat(rows, cols, type, &data.front()) wraps the caller's pointer and
\* checks nothing: its data member is that pointer, which is never null.
MatDataIsNull(image_capture) == FALSE

\* cv_bridge::CvImage{header, encoding, mat}.toImageMsg(): the message copies
\* rows * step bytes from the matrix.
CvImageToImageMsg(header, encoding, rows, cols, cvType) ==
  [frame_id |-> header.frame_id,
   stamp |-> header.stamp,
   encoding |-> encoding,
   height |-> rows,
   width |-> cols,
   step |-> cols * ElemSize(cvType),
   mat_type |-> cvType]

\* FORMAT_JPEG: a 1 x (rows*cols) matrix over the payload is handed to
\* cv::imdecode; jpeg_decodable says whether those bytes decode.  The decoded
\* picture is taken to have the size the SDK reports.
toImageMsgJpeg(image_capture, header) ==
  LET decoded == Ok(CvImageToImageMsg(header, "bgr8", image_capture.rows,
                                      image_capture.cols, "CV_8UC3"))
      failed == Unexpected("Failed to decode JPEG-compressed image.")
  IN  IF image_capture.data_size < image_capture.rows * image_capture.cols
      THEN \* cv::imdecode reads rows*cols bytes of a shorter buffer
           {decoded, failed, Aborted}
      ELSE IF image_capture.jpeg_decodable THEN {decoded} ELSE {failed}

toImageMsgRaw(image_capture, header, cvType) ==
  LET need == image_capture.rows * image_capture.cols * ElemSize(cvType)
      msg == Ok(CvImageToImageMsg(header, "16UC1", image_capture.rows,
                                  image_capture.cols, cvType))
  IN  IF MatDataIsNull(image_capture)
      THEN {Unexpected("Failed to decode raw-formatted image.")}
      ELSE IF image_capture.data_size < need
           THEN \* toImageMsg copies `need` bytes out of a shorter buffer
                {msg, Aborted}
           ELSE {msg}

toImageMsg(image_capture, robot_name, clock_skew) ==
  LET header == [frame_id |-> FramePrefix(robot_name)
                                \o image_capture.frame_name_image_sensor,
                 stamp |-> applyClockSkew(image_capture.acquisition_time, clock_skew)]
      pixel_format_cv == getCvPixelFormat(image_capture.pixel_format)
  IN  IF ~pixel_format_cv.ok
      THEN {Unexpected("Failed to determine pixel format: " \o pixel_format_cv.error)}
      ELSE CASE image_capture.format = "FORMAT_JPEG" ->
                  toImageMsgJpeg(image_capture, header)
             [] image_capture.format = "FORMAT_RAW" ->
                  toImageMsgRaw(image_capture, header, pixel_format_cv.value)
             [] image_capture.format = "FORMAT_RLE" ->
                  {Unexpected("Conversion from FORMAT_RLE is not yet implemented.")}
             [] OTHER -> {Unexpected("Unknown image format.")}

(***************************************************************************)
(* getImageTransforms.  `order` is the order in which the range-for visits *)
(* child_to_parent_edge_map(), a google::protobuf::Map: a hash map whose   *)
(* iteration order is unspecified and differs between copies of a map.     *)
(***************************************************************************)
toTransformStamped(parent_tform_child, parent_frame, child_frame, tf_time) ==
  [frame_id |-> parent_frame,
   child_frame_id |-> child_frame,
   stamp |-> tf_time,
   transform |-> parent_tform_child]

\* The rename left out: the parent keeps the name the SDK gave it.
RenamedParent_Kept(parent_frame_name) == parent_frame_name

RenamedParent(parent_frame_name) ==
  IF parent_frame_name = "arm0.link_wr1" THEN "link_wr1" ELSE parent_frame_name

\* Only the odometry frames are skipped.
IsExcluded_OdometryOnly(child_frame_id) == child_frame_id \in {"odom", "vision"}

IsExcluded(child_frame_id) == child_frame_id \in kExcludedStaticTfFrames

\* The separator is written whether or not there is a robot name.
PrefixedFrame_AlwaysSeparator(robot_name, frame_id) == robot_name \o "/" \o frame_id

PrefixedFrame(robot_name, frame_id) ==
  IF robot_name = "" THEN frame_id ELSE robot_name \o "/" \o frame_id

\* The transform is stamped with the robot's time as it came.
TransformStamp_Uncorrected(image_response, clock_skew) ==
  image_response.acquisition_time

TransformStamp(image_response, clock_skew) ==
  applyClockSkew(image_response.acquisition_time, clock_skew)

EdgeTransform(image_response, robot_name, clock_skew, child_frame_id) ==
  LET transform == image_response.edges[child_frame_id]
      parent_frame_id == RenamedParent(transform.parent_frame_name)
  IN  toTransformStamped(transform.parent_tform_child,
                         PrefixedFrame(robot_name, parent_frame_id),
                         PrefixedFrame(robot_name, child_frame_id),
                         TransformStamp(image_response, clock_skew))

getImageTransforms(image_response, robot_name, clock_skew, order) ==
  LET kept == SelectSeq(order, LAMBDA c : ~IsExcluded(c))
  IN  Ok([j \in 1..Len(kept) |->
            EdgeTransform(image_response, robot_name, clock_skew, kept[j])])

\* Every order in which a map with key set S can be walked.
IterationOrders(S) ==
  {s \in [1..Cardinality(S) -> S] : \A a, b \in DOMAIN s : s[a] = s[b] => a = b}

(***************************************************************************)
(* fromSpotImageSourceName: the source-name registry.                      *)
(***************************************************************************)
fromSpotImageSourceName(camera_name) ==
  CASE camera_name = "frontleft_fisheye_image" ->
         Ok([camera |-> "FRONTLEFT", type |-> "RGB"])
    [] camera_name = "hand_color_image" ->
         Ok([camera |-> "HAND", type |-> "RGB"])
    [] camera_name = "frontleft_depth" ->
         Ok([camera |-> "FRONTLEFT", type |-> "DEPTH"])
    [] OTHER -> Unexpected("Could not convert source name '" \o camera_name
                           \o "' to ImageSource.")


(***************************************************************************)
(* What the robot can answer to a GetImageRequest.  An image response is   *)
(* flattened to one record: source().name(), the fields of shot().image(), *)
(* shot().frame_name_image_sensor(), shot().acquisition_time() and         *)
(* shot().transforms_snapshot().child_to_parent_edge_map() as a function   *)
(* from child frame to [parent_frame_name, parent_tform_child].            *)
(***************************************************************************)
RobotNames == {"", "Spot"}
ClockSkews == {0 - 2, 3}
AcquisitionTimes == {100, 107}

NoEdges == [c \in {} |-> [parent_frame_name |-> "", parent_tform_child |-> 0]]

Response(name, pixel_format, format, rows, cols, data_size, jpeg_decodable, sensor, time, edges) ==
  [name |-> name, pixel_format |-> pixel_format, format |-> format,
   rows |-> rows, cols |-> cols, data_size |-> data_size,
   jpeg_decodable |-> jpeg_decodable, frame_name_image_sensor |-> sensor,
   acquisition_time |-> time, edges |-> edges]

\* A 16-bit depth image sent raw with a payload of exactly rows*cols*2 bytes.
DepthResponse(name, sensor, time, edges) ==
  Response(name, "PIXEL_FORMAT_DEPTH_U16", "FORMAT_RAW", 1, 1, 2, FALSE,
           sensor, time, edges)

\* The snapshot of a body camera and the snapshot of the hand camera.
FrontSnapshot ==
  [c \in {"odom", "vision", "head", "frontleft_fisheye"} |->
     CASE c = "odom" -> [parent_frame_name |-> "body", parent_tform_child |-> 11]
       [] c = "vision" -> [parent_frame_name |-> "body", parent_tform_child |-> 12]
       [] c = "head" -> [parent_frame_name |-> "body", parent_tform_child |-> 13]
       [] c = "frontleft_fisheye" ->
            [parent_frame_name |-> "head", parent_tform_child |-> 14]]
HandSnapshot ==
  [c \in {"body", "arm0.link_wr1", "hand_color_image_sensor"} |->
     CASE c = "body" -> [parent_frame_name |-> "vision", parent_tform_child |-> 21]
       [] c = "arm0.link_wr1" ->
            [parent_frame_name |-> "body", parent_tform_child |-> 22]
       [] c = "hand_color_image_sensor" ->
            [parent_frame_name |-> "arm0.link_wr1", parent_tform_child |-> 23]]

WireNames == {"frontleft_fisheye_image", "hand_color_image", "not_a_camera"}

\* Responses that differ in what the image conversion and the source-name
\* registry make of them.
ConversionResponses ==
  {Response(n, im[1], im[2], 1, 1, 2, im[3], "frontleft_fisheye", 100, NoEdges) :
     n \in WireNames,
     im \in {<<"PIXEL_FORMAT_DEPTH_U16", "FORMAT_RAW", FALSE>>,
             <<"PIXEL_FORMAT_RGB_U8", "FORMAT_JPEG", FALSE>>,
             <<"PIXEL_FORMAT_UNKNOWN", "FORMAT_RAW", FALSE>>,
             <<"PIXEL_FORMAT_RGB_U8", "FORMAT_RLE", FALSE>>}}

\* Responses that differ in acquisition time and transform snapshot.
SnapshotResponses ==
  {DepthResponse(n, "frontleft_fisheye", t, e) :
     n \in {"frontleft_fisheye_image", "hand_color_image"},
     t \in AcquisitionTimes, e \in {FrontSnapshot, HandSnapshot}}

BatchResponses == ConversionResponses \cup SnapshotResponses

\* Every image a single response can carry.
ImageResponses ==
  {Response("frontleft_fisheye_image", pf, f, r, c, n, j, "frontleft_fisheye",
            100, NoEdges) :
     pf \in PixelFormats, f \in ImageFormats, r \in 1..MaxDim, c \in 1..MaxDim,
     n \in 0..(4 * MaxDim * MaxDim), j \in BOOLEAN}

\* Every snapshot of at most MaxEdges edges over these frames.
SnapshotChildFrames == {"body", "odom", "vision", "arm0.link_wr1",
                        "hand_color_image_sensor", "frontleft_fisheye"}
SnapshotParentFrames == {"arm0.link_wr1", "body"}
PoseOf(c) ==
  CASE c = "body" -> 1 [] c = "odom" -> 2 [] c = "vision" -> 3
    [] c = "arm0.link_wr1" -> 4 [] c = "hand_color_image_sensor" -> 5
    [] c = "frontleft_fisheye" -> 6
Snapshots ==
  UNION {{[c \in S |-> [parent_frame_name |-> par[c], parent_tform_child |-> PoseOf(c)]] :
            par \in [S -> SnapshotParentFrames]} :
         S \in {T \in SUBSET SnapshotChildFrames : Cardinality(T) <= MaxEdges}}
TransformResponses ==
  {DepthResponse("hand_color_image", "hand_color_image_sensor", 100, e) :
     e \in Snapshots}

SeqsUpTo(S, n) == UNION {[1..k -> S] : k \in 0..n}

Batches(p) ==
  CASE p = "batch" -> SeqsUpTo(BatchResponses, MaxBatch)
    [] p = "image" -> {<<r>> : r \in ImageResponses}
    [] p = "transform" -> {<<r>> : r \in TransformResponses}

(***************************************************************************)
(* DefaultImageClient::getImages                                           *)
(***************************************************************************)
EmptyResult == [images_ |-> [k \in {} |-> 0], transforms_ |-> <<>>]

\* std::map::try_emplace: inserts only when the key is absent.
TryEmplace(m, key, value) ==
  IF key \in DOMAIN m
  THEN m
  ELSE [k \in DOMAIN m \cup {key} |-> IF k = key THEN value ELSE m[k]]

\* The entry that failed is skipped and the loop goes on.
ReturnUnexpected_Continue(o, e) == [pc |-> "loop", out |-> o, result |-> None]

\* `return tl::make_unexpected(...)` inside the loop.
ReturnUnexpected(o, e) == [pc |-> "done", out |-> o, result |-> Unexpected(e)]

\* One iteration of the loop over image_responses(): the next position, the
\* accumulated `out` and what the function returned, if it returned.
LoopIteration(o, image_response, robot_name, clock_skew, im, order) ==
  LET Return(e) == ReturnUnexpected(o, e)
      info_msg == toCameraInfoMsg(image_response, robot_name, clock_skew)
      get_source_name_result == fromSpotImageSourceName(image_response.name)
      transforms_result ==
        getImageTransforms(image_response, robot_name, clock_skew, order)
  IN  IF IsAborted(im)
      THEN [pc |-> "aborted", out |-> o, result |-> None]
      ELSE IF ~im.ok
      THEN Return("Failed to convert SDK image response to ROS Image message: "
                  \o im.error)
      ELSE IF ~info_msg.ok
      THEN Return("Failed to convert SDK image response to ROS CameraInfo message: "
                  \o info_msg.error)
      ELSE IF ~get_source_name_result.ok
      THEN Return("Failed to convert API image source name to ImageSource: "
                  \o get_source_name_result.error)
      ELSE IF ~transforms_result.ok
      THEN Return("Failed to get image transforms: " \o transforms_result.error)
      ELSE [pc |-> "loop",
            out |-> [images_ |->
                       TryEmplace(o.images_, get_source_name_result.value,
                                  [image |-> im.value, camera_info |-> info_msg.value]),
                     transforms_ |-> o.transforms_ \o transforms_result.value],
            result |-> None]

InitPool(p) ==
  /\ pool = p
  /\ robot_name_ \in RobotNames
  /\ pc = "idle"
  /\ get_image_result = None
  /\ clock_skew_result = None
  /\ skewCalls = 0
  /\ idx = 0
  /\ image_msg = None
  /\ out = EmptyResult
  /\ result = None
  /\ invocations = 0
  /\ prev = None
  /\ kin_pc = "spinning"
  /\ kin_history = <<>>

Init == InitPool("batch")

\* image_client_->GetImageAsync(request) and get_image_result_future.get()
GetImageAsync ==
  /\ pc = "idle"
  /\ invocations' = invocations + 1
  /\ \E r \in {[status |-> FALSE, response |-> <<>>]}
               \cup {[status |-> TRUE, response |-> b] : b \in Batches(pool)} :
       /\ get_image_result' = r
       /\ IF ~r.status
          THEN /\ result' = Unexpected("Failed to get images: " \o "RPC failed")
               /\ pc' = "done"
          ELSE /\ result' = result
               /\ pc' = "get_clock_skew"
  /\ UNCHANGED <<pool, robot_name_, clock_skew_result, skewCalls, idx, image_msg,
                 out, prev, kinVars>>

\* time_sync_api_->getClockSkew(), then `GetImagesResult out;`
GetClockSkew ==
  /\ pc = "get_clock_skew"
  /\ skewCalls' = skewCalls + 1
  /\ \E r \in {Unexpected("no time sync")} \cup {Ok(s) : s \in ClockSkews} :
       /\ clock_skew_result' = r
       /\ IF ~r.ok
          THEN /\ result' = Unexpected("Failed to get latest clock skew: " \o r.error)
               /\ pc' = "done"
          ELSE /\ result' = result
               /\ pc' = "loop"
  /\ out' = EmptyResult
  /\ UNCHANGED <<pool, robot_name_, get_image_result, idx, image_msg,
                 invocations, prev, kinVars>>

\* One pass through the body of the loop over image_responses().
ConvertImageResponse ==
  /\ pc = "loop"
  /\ idx < Len(get_image_result.response)
  /\ LET image_response == get_image_result.response[idx + 1]
         clock_skew == clock_skew_result.value
     IN  \E im \in toImageMsg(image_response, robot_name_, clock_skew),
            order \in IterationOrders(DOMAIN image_response.edges) :
           LET next == LoopIteration(out, image_response, robot_name_,
                                     clock_skew, im, order)
           IN  /\ image_msg' = im
               /\ pc' = next.pc
               /\ out' = next.out
               /\ result' = next.result
  /\ idx' = idx + 1
  /\ UNCHANGED <<pool, robot_name_, get_image_result, clock_skew_result,
                 skewCalls, invocations, prev, kinVars>>

\* `return out;`
ReturnOut ==
  /\ pc = "loop"
  /\ idx = Len(get_image_result.response)
  /\ result' = Ok(out)
  /\ pc' = "done"
  /\ UNCHANGED <<pool, robot_name_, get_image_result, clock_skew_result,
                 skewCalls, idx, image_msg, out, invocations, prev, kinVars>>

Next == GetImageAsync \/ GetClockSkew \/ ConvertImageResponse \/ ReturnOut

Spec == Init /\ [][Next]_vars

(***************************************************************************)
(* toImageMsg on every image: getImages on every one-response batch.       *)
(***************************************************************************)
InitImage == InitPool("image")
SpecImage == InitImage /\ [][Next]_vars

(***************************************************************************)
(* getImageTransforms on every snapshot, and a second getImages call whose *)
(* request the robot answers with an equal batch.                          *)
(***************************************************************************)
GetImagesAgain ==
  /\ pc = "done"
  /\ invocations < MaxInvocations
  /\ get_image_result.status
  /\ prev' = [clock_skew_result |-> clock_skew_result, result |-> result]
  /\ invocations' = invocations + 1
  /\ pc' = "get_clock_skew"
  /\ clock_skew_result' = None
  /\ skewCalls' = 0
  /\ idx' = 0
  /\ image_msg' = None
  /\ out' = EmptyResult
  /\ result' = None
  /\ UNCHANGED <<pool, robot_name_, get_image_result, kinVars>>

InitTransforms == InitPool("transform")
NextTransforms == Next \/ GetImagesAgain
SpecTransforms == InitTransforms /\ [][NextTransforms]_vars

(***************************************************************************)
(* KinematicService::service_callback_                                     *)
(***************************************************************************)
KinematicRequests == {"tool_pose_a", "tool_pose_b"}
\* What kinematic_api_->get_solutions(proto_request) can return.
GetSolutionsResults ==
  {Ok([response |-> "STATUS_OK"]), Ok([response |-> "STATUS_NO_SOLUTION_FOUND"]),
   Unexpected("deadline exceeded"), Unexpected("robot unreachable")}

\* One run of the callback: what it logged, whether it evaluated
\* expected.value(), and whether it ran to its end.  value() of an expected
\* that holds an error throws tl::bad_expected_access, which nothing catches.
ServiceCallbackRun(request, expected) ==
  [request |-> request,
   expected |-> expected,
   logged |-> IF ~expected.ok
              THEN <<"Error searching for an InverseKinematic solution: "
                     \o expected.error>>
              ELSE <<>>,
   value_read |-> TRUE,
   completed |-> expected.ok]

ServiceCallback ==
  /\ kin_pc = "spinning"
  /\ Len(kin_history) < MaxRequests
  /\ \E request \in KinematicRequests, expected \in GetSolutionsResults :
       LET run == ServiceCallbackRun(request, expected)
       IN  /\ kin_history' = Append(kin_history, run)
           /\ kin_pc' = IF run.completed THEN "spinning" ELSE "terminated"
  /\ UNCHANGED imgVars

NextKinematic == ServiceCallback
SpecKinematic == Init /\ [][NextKinematic]_vars

(***************************************************************************)
(* Properties.                                                             *)
(***************************************************************************)
Retrieved == ~IsNone(get_image_result) /\ get_image_result.status
responses == get_image_result.response
SkewKnown == Retrieved /\ ~IsNone(clock_skew_result) /\ clock_skew_result.ok
Range(f) == {f[x] : x \in DOMAIN f}
Min(S) == CHOOSE x \in S : \A y \in S : x <= y

ExcludedChildFrames == {"body", "odom", "vision", "arm0.link_wr1"}
\* The frame name a robot name was put in front of.
Unprefixed(frame_id) ==
  IF robot_name_ = "" THEN frame_id
  ELSE SubSeq(frame_id, Len(robot_name_) + 2, Len(frame_id))
\* The frame name with the robot name and "/" in front, none for no name.
WithNamespace(frame_id) ==
  IF robot_name_ = "" THEN frame_id ELSE robot_name_ \o "/" \o frame_id
SameSource(a, b) ==
  /\ fromSpotImageSourceName(a.name).ok
  /\ fromSpotImageSourceName(b.name).ok
  /\ fromSpotImageSourceName(a.name).value = fromSpotImageSourceName(b.name).value
\* Number of loop iterations that ran to their end.
Completed == IF pc = "loop" \/ (pc = "done" /\ result.ok) THEN idx
             ELSE IF idx > 0 THEN idx - 1 ELSE 0

\* C1: when two entries of the batch resolve to the same canonical
\* ImageSource, getImages fails (with a duplicate-source error): it never
\* returns a successful result that kept one entry and dropped the other.
C1_DuplicateSourceFails ==
  (pc = "done" /\ Retrieved
     /\ \E a, b \in DOMAIN responses : a < b /\ SameSource(responses[a], responses[b]))
  => (~result.ok /\ DOMAIN result = {"ok", "error"})

\* An entry fails a stage: its image conversion or its source-name mapping
\* returns an error (camera info and transform extraction never do).
EntryFails(r) ==
  \/ \A im \in toImageMsg(r, robot_name_, clock_skew_result.value) :
       ~IsAborted(im) /\ ~im.ok
  \/ ~fromSpotImageSourceName(r.name).ok
EntryError(r) ==
  LET im == CHOOSE x \in toImageMsg(r, robot_name_, clock_skew_result.value) : TRUE
  IN  IF ~im.ok
      THEN "Failed to convert SDK image response to ROS Image message: " \o im.error
      ELSE "Failed to convert API image source name to ImageSource: "
           \o fromSpotImageSourceName(r.name).error

\* C2: getImages is fail-fast and all-or-nothing: if any entry of the batch
\* fails a stage, the call returns an error that carries no images and no
\* transforms, the error is that of the first failing entry in batch order,
\* and no entry after that one is processed.
C2_FailFastAllOrNothing ==
  (pc = "done" /\ SkewKnown)
  => LET failing == {k \in DOMAIN responses : EntryFails(responses[k])}
     IN  failing # {}
         => /\ ~result.ok
            /\ DOMAIN result = {"ok", "error"}
            /\ result.error = EntryError(responses[Min(failing)])
            /\ idx = Min(failing)

\* Two entries, the first converted with its transforms, the second with a
\* source name the registry does not know.
C2_Witness ==
  /\ pc = "done" /\ SkewKnown
  /\ Len(responses) = 2
  /\ ~EntryFails(responses[1])
  /\ responses[1].edges # NoEdges
  /\ responses[2].name = "not_a_camera"
  /\ ~result.ok
  /\ out.transforms_ # <<>>

\* The transform t names no excluded child and carries the pose of no edge
\* with an excluded child.
NotFromExcludedEdge(t) ==
  /\ Unprefixed(t.child_frame_id) \notin ExcludedChildFrames
  /\ \A k \in DOMAIN responses : \A c \in DOMAIN responses[k].edges :
       responses[k].edges[c].parent_tform_child = t.transform
       => c \notin ExcludedChildFrames

\* C3: no emitted transform comes from an edge whose child frame is "body",
\* "odom", "vision" or "arm0.link_wr1", for every namespace; the transform
\* sequence of a successful getImages holds none either.
C3_NoExcludedChildEmitted ==
  Retrieved
  => /\ \A t \in Range(out.transforms_) : NotFromExcludedEdge(t)
     /\ (pc = "done" /\ result.ok)
        => \A t \in Range(result.value.transforms_) : NotFromExcludedEdge(t)

\* A successful call on two responses whose snapshots hold excluded children
\* and whose other edges were emitted.
C3_Witness ==
  /\ pc = "done" /\ Retrieved /\ result.ok
  /\ Len(responses) = 2
  /\ \A k \in {1, 2} : DOMAIN responses[k].edges \cap ExcludedChildFrames # {}
  /\ responses[1].edges # responses[2].edges
  /\ Len(result.value.transforms_) = 3

\* C4: an edge whose parent is "arm0.link_wr1" is emitted with the parent
\* "link_wr1"; no emitted parent is "arm0.link_wr1", prefixed or not; every
\* other parent name and every child name is emitted as it was.
C4_ParentRenamed ==
  (Retrieved /\ Len(responses) = 1)
  => \A t \in Range(out.transforms_) :
       \E c \in DOMAIN responses[1].edges :
         LET parent == responses[1].edges[c].parent_frame_name
         IN  /\ responses[1].edges[c].parent_tform_child = t.transform
             /\ Unprefixed(t.child_frame_id) = c
             /\ Unprefixed(t.frame_id) =
                  (IF parent = "arm0.link_wr1" THEN "link_wr1" ELSE parent)
             /\ t.frame_id \notin {"arm0.link_wr1", robot_name_ \o "/arm0.link_wr1"}

\* The hand camera's edge, whose parent is the wrist link, was emitted next
\* to an edge whose parent is "body".
C4_Witness ==
  /\ pc = "done" /\ Retrieved /\ result.ok
  /\ \E t \in Range(result.value.transforms_) :
       /\ Unprefixed(t.frame_id) = "link_wr1"
       /\ Unprefixed(t.child_frame_id) = "hand_color_image_sensor"
       /\ responses[1].edges["hand_color_image_sensor"].parent_frame_name
            = "arm0.link_wr1"
  /\ \E t \in Range(result.value.transforms_) : Unprefixed(t.frame_id) = "body"


RawEntry == /\ Retrieved /\ idx = 1 /\ Len(responses) = 1
            /\ responses[1].format = "FORMAT_RAW"
BytesOf16BitImage(r) == r.rows * r.cols * 2
BytesOfImage(r) ==
  r.rows * r.cols * (IF r.pixel_format = "PIXEL_FORMAT_RGB_U8" THEN 3
                     ELSE IF r.pixel_format = "PIXEL_FORMAT_RGBA_U8" THEN 4
                     ELSE IF r.pixel_format = "PIXEL_FORMAT_GREYSCALE_U8" THEN 1
                     ELSE 2)

\* C5: toImageMsg on a Raw image of a 16-bit single-channel pixel format
\* succeeds when the payload has exactly rows*cols*2 bytes and fails with a
\* decode error, producing no image, when the payload is shorter (one byte
\* short, or empty).
\* (Stated of the calls that return: a call the process did not survive
\* returned nothing.)
C5_RawPayloadSizeChecked ==
  (RawEntry /\ ~IsAborted(image_msg)
     /\ responses[1].pixel_format
          \in {"PIXEL_FORMAT_DEPTH_U16", "PIXEL_FORMAT_GREYSCALE_U16"})
  => /\ responses[1].data_size = BytesOf16BitImage(responses[1]) => image_msg.ok
     /\ responses[1].data_size < BytesOf16BitImage(responses[1])
        => /\ ~image_msg.ok
           /\ image_msg.error = "Failed to decode raw-formatted image."

\* C6: toImageMsg on a Raw image whose pixel format is RGB-8, RGBA-8 or
\* Grayscale-8 fails with an error; such an image is never returned as a
\* decoded image, in particular never as one labelled 16UC1.
\* (Stated of the payloads that fill the image: rows*cols pixels of the
\* format's size.)
C6_RawOtherLayoutsUnsupported ==
  (RawEntry
     /\ responses[1].pixel_format
          \in {"PIXEL_FORMAT_RGB_U8", "PIXEL_FORMAT_RGBA_U8",
               "PIXEL_FORMAT_GREYSCALE_U8"}
     /\ responses[1].data_size >= BytesOfImage(responses[1]))
  => /\ ~IsAborted(image_msg)
     /\ ~image_msg.ok
     /\ DOMAIN image_msg = {"ok", "error"}

KeptCount(r) == Cardinality({c \in DOMAIN r.edges : c \notin ExcludedChildFrames})
RECURSIVE Offset(_)
\* Number of transforms the entries before entry k contribute.
Offset(k) == IF k <= 1 THEN 0 ELSE Offset(k - 1) + KeptCount(responses[k - 1])
Corrected(k) ==
  applyClockSkew(responses[k].acquisition_time, clock_skew_result.value)
\* The entry whose image the map holds under `key`: the first with that source.
FirstWithSource(key) ==
  Min({k \in 1..Completed : fromSpotImageSourceName(responses[k].name).value = key})

\* C7: within one getImages call getClockSkew is called once, after the
\* retrieval succeeded and before any entry is converted, and every stamp of
\* the call (image, camera info, every transform of a response) is that
\* response's acquisition time corrected by that one value.
C7_OneSkewForAllStamps ==
  /\ skewCalls <= 1
  /\ pc \in {"idle", "get_clock_skew"} => (skewCalls = 0 /\ idx = 0)
  /\ skewCalls = 1 => Retrieved
  /\ (pc = "loop" \/ idx > 0) => (skewCalls = 1 /\ SkewKnown)
  /\ SkewKnown
     => /\ \A key \in DOMAIN out.images_ :
             /\ out.images_[key].image.stamp = Corrected(FirstWithSource(key))
             /\ out.images_[key].camera_info.stamp = Corrected(FirstWithSource(key))
        /\ Len(out.transforms_) = Offset(Completed + 1)
        /\ \A k \in 1..Completed : \A j \in (Offset(k) + 1)..Offset(k + 1) :
             out.transforms_[j].stamp = Corrected(k)
        /\ (~IsNone(image_msg) /\ ~IsAborted(image_msg) /\ image_msg.ok)
           => image_msg.value.stamp = Corrected(idx)

\* A successful call on two responses acquired at different times, each with
\* transforms.
C7_Witness ==
  /\ pc = "done" /\ SkewKnown /\ result.ok
  /\ Len(responses) = 2
  /\ responses[1].acquisition_time # responses[2].acquisition_time
  /\ Cardinality(DOMAIN result.value.images_) = 2
  /\ KeptCount(responses[1]) > 0 /\ KeptCount(responses[2]) > 0

NoLeadingSeparator(frame_id) == SubSeq(frame_id, 1, 1) # "/"

\* C8: every emitted parent and child frame id is the namespace, "/" and the
\* name when the namespace is not empty, and the bare name with no leading
\* "/" when it is empty; exclusion and the parent rename are decided on the
\* names without the prefix; image and camera-info frame ids follow the
\* same rule.
C8_NamespacePrefix ==
  SkewKnown
  => /\ \A t \in Range(out.transforms_) :
          /\ \E k \in DOMAIN responses : \E c \in DOMAIN responses[k].edges :
               LET edge == responses[k].edges[c]
               IN  /\ c \notin ExcludedChildFrames
                   /\ edge.parent_tform_child = t.transform
                   /\ t.child_frame_id = WithNamespace(c)
                   /\ t.frame_id =
                        WithNamespace(IF edge.parent_frame_name = "arm0.link_wr1"
                                      THEN "link_wr1" ELSE edge.parent_frame_name)
          /\ robot_name_ = ""
             => NoLeadingSeparator(t.frame_id) /\ NoLeadingSeparator(t.child_frame_id)
     /\ \A k \in 1..Completed : \A c \in DOMAIN responses[k].edges :
          c \notin ExcludedChildFrames
          => \E t \in Range(out.transforms_) : t.child_frame_id = WithNamespace(c)
     /\ \A key \in DOMAIN out.images_ :
          LET sensor == responses[FirstWithSource(key)].frame_name_image_sensor
          IN  /\ out.images_[key].image.frame_id = WithNamespace(sensor)
              /\ out.images_[key].camera_info.frame_id = WithNamespace(sensor)
              /\ robot_name_ = ""
                 => NoLeadingSeparator(out.images_[key].image.frame_id)

\* No namespace: the hand camera's edge comes out as link_wr1 ->
\* hand_color_image_sensor, beside a snapshot with excluded children.
C8_Witness ==
  /\ pc = "done" /\ SkewKnown /\ result.ok
  /\ robot_name_ = ""
  /\ DOMAIN result.value.images_ # {}
  /\ \E t \in Range(result.value.transforms_) :
       t.frame_id = "link_wr1" /\ t.child_frame_id = "hand_color_image_sensor"
  /\ \E k \in DOMAIN responses : "body" \in DOMAIN responses[k].edges

\* C9: two getImages invocations on the same batch, with the same namespace
\* and the same skew, return the same transforms in the same order.
C9_TransformOrderDeterministic ==
  (pc = "done" /\ ~IsNone(prev) /\ prev.result.ok /\ result.ok
     /\ prev.clock_skew_result = clock_skew_result)
  => result.value.transforms_ = prev.result.value.transforms_

\* C10: service_callback_ reads the value of the result of get_solutions only
\* when get_solutions succeeded; on an error it logs the error and completes
\* without evaluating expected.value().
C10_ValueReadOnlyOnSuccess ==
  \A j \in DOMAIN kin_history :
    LET run == kin_history[j]
    IN  /\ run.value_read => run.expected.ok
        /\ ~run.expected.ok => (run.logged # <<>> /\ run.completed)

=============================================================================
